---- MODULE Spec2Model ----
(***************************************************************************)
(* Analysis pipeline of the documentation generator: the job state machine *)
(* (services/analysis_progress.py), the job runner                         *)
(* (services/analysis_runner.py), the preprocessing pipeline with its      *)
(* embedding batcher (services/code_chunker.py), the orchestrator          *)
(* (services/analysis_orchestrator.py) and the control entry points        *)
(* (api/v1/analysis.py, api/v1/websocket_progress.py).                     *)
(*                                                                         *)
(* One analysis row is modelled.  Time is counted in whole minutes and     *)
(* only as far as the code reads it: paused_for is utcnow() - paused_at,   *)
(* wt is the time a runner has spent inside one asyncio.wait_for window.   *)
(***************************************************************************)
EXTENDS Integers, FiniteSets, Sequences, TLC

\* ---------------------------------------------------------------- bounds
MaxRunners == 2        \* runner tasks that can be created for the analysis
NumFiles == 3          \* largest repository (source files) of the embedding specification
ChunksPerFile == 15    \* code chunks extracted from each file
MaxControlOps == 2     \* control requests (pause / resume) sent by clients
MaxFaults == 3         \* provider calls that fail, embedding specification
MaxLifecycleFaults == 1 \* provider calls that fail, lifecycle specification
MaxContextOps == 2     \* add_context requests sent by clients, orchestration specification
MaxUrlLen == 220       \* longest source_path (repository URL) of a GitHub project
MaxSubscribers == 3    \* WebSocket clients subscribed to the analysis
MaxBroadcasts == 2     \* update_progress / log_event calls in flight
MaxLogWriters == 3     \* log_event calls while the client is connected
MaxClock == 2          \* distinct later values of datetime.utcnow()
MaxLines == 4          \* lines of a unit handed to the splitter
MaxCorpus == 3         \* embedded chunks of the project searched
MaxLimit == 2          \* largest `limit` of a search
MaxRecorders == 3      \* calls of record_llm_usage / record_embedding_usage

\* ------------------------------------------------------ program constants
PAUSE_TIMEOUT_MINUTES == 5
EMBED_WINDOW_TIMEOUT_MINUTES == 2
EMBED_FILES_PER_WINDOW == 2
EMBED_BATCH_SIZE == 20
EMBED_MAX_CHUNKS_PER_WINDOW == 80
OPENAI_API_KEY == TRUE
LOG_MESSAGE_CHARS == 200
NONE == -1

PAUSE_ALLOWED_STAGES ==
    {"repo_scan", "code_chunking", "embedding_generation", "agent_orchestration"}

AnalysisStatus ==
    {"pending", "preprocessing", "analyzing", "paused", "completed", "failed", "cancelled"}

AnalysisStage ==
    {"NULL", "repo_scan", "code_chunking", "embedding_generation",
     "agent_orchestration", "documentation_generation", "completed"}

MSG_NONE == "NULL"
MSG_PAUSE_TIMEOUT == "Pause timeout exceeded"
MSG_EMBED_ABORT == "Embedding failed more than 2 batches; aborting analysis"
MSG_INTEGRITY == "duplicate key value violates unique constraint \"repository_metadata_project_id_key\""

GraphNodes == <<"coordinator", "structure", "web_search", "writers", "join">>

NO_PAUSE == <<"NULL", "NULL">>

\* ------------------------------------------------------------------ state
VARIABLES
    status,            \* Analysis.status
    current_stage,     \* Analysis.current_stage ("NULL" = None)
    paused,            \* Analysis.paused
    paused_for,        \* utcnow() - Analysis.paused_at in minutes, NONE = paused_at is None
    error_message,     \* Analysis.error_message
    processed_files,   \* Analysis.processed_files
    total_files,       \* Analysis.total_files
    repo_meta_rows,    \* RepositoryMetadata rows of the project
    chunks_unembedded, \* CodeChunk rows with embedding == None
    chunks_embedded,   \* CodeChunk rows with an embedding
    artifacts_written, \* artifact writes committed for the analysis
    checkpoint,        \* graph nodes recorded as done in the checkpoint of thread analysis-<id>
    node_runs,         \* how often each graph node has been executed
    files,             \* source files in the extracted repository (input)
    run,               \* the runner tasks: position and locals of each run_analysis_job
    ops_left,          \* control requests the clients may still send
    faults_left,       \* provider failures that may still happen
    pre_pause,         \* history: <<status, stage>> at the pause in force, NO_PAUSE when none is
    target_personas,   \* Analysis.target_personas: the flags sde and pm (input)
    instructions,      \* Analysis.user_context["instructions"]
    pending_context,   \* Analysis.user_context["pending_context"]
    branch,            \* the writer tasks sde_doc and pm_doc of the running graph
    null_resume,       \* the value of Command(resume=...) and the tasks it can still reach
    outputs,           \* writer outputs in the graph state: sde_output, pm_output
    ctx_left,          \* add_context requests the clients may still send
    hist,              \* history: pending_context clears since the last resume, resumes sent
    active_connections, \* ConnectionManager.active_connections[analysis_id]: the subscribed sockets
    sockets,           \* the client connections: "open", "broken", or "closed" by their handler
    bc,                \* the running update_progress / log_event calls and their broadcast
    clock,             \* datetime.utcnow()
    analysis_logs,     \* the AnalysisLog rows being written: created with a timestamp, then committed
    stream,            \* event_stream of one connected client: last_log_ts and the events yielded
    raw_chunk,         \* the unit handed to _split_large_chunks
    split_chunks,      \* what _split_large_chunks returned for it
    search,            \* the call of search_similar_code: stored embeddings, query embedding,
                       \* limit, similarity_threshold
    results,           \* what search_similar_code returned
    total_tokens_used, \* Analysis.total_tokens_used
    usage,             \* the calls of record_llm_usage / record_embedding_usage
    gate_log           \* per runner: logged_waiting of its wait_if_paused call, the number of
                       \* its "Pause gate waiting" events, and which of them got its
                       \* "Pause gate released" event, at which gate

avars == <<status, current_stage, paused, paused_for, error_message, processed_files, total_files>>
dbvars == <<files, repo_meta_rows, chunks_unembedded, chunks_embedded>>
orchvars == <<artifacts_written, checkpoint, node_runs>>
envvars == <<ops_left, faults_left>>
ctxvars == <<instructions, pending_context>>
bvars == <<active_connections, sockets, bc>>
svars == <<clock, analysis_logs, stream>>
cvars == <<raw_chunk, split_chunks>>
qvars == <<search, results>>
tvars == <<total_tokens_used, usage>>
uvars == <<bvars, svars, cvars, qvars, tvars, gate_log>>
UnitRest == <<avars, dbvars, orchvars, run, envvars, pre_pause>>
GraphRest == <<target_personas, ctxvars, branch, null_resume, outputs, ctx_left, hist>>
NotBroadcast == <<UnitRest, GraphRest, svars, cvars, qvars, tvars, gate_log>>
NotStream == <<UnitRest, GraphRest, bvars, cvars, qvars, tvars, gate_log>>
NotSplitter == <<UnitRest, GraphRest, bvars, svars, qvars, tvars, gate_log>>
NotSearch == <<UnitRest, GraphRest, bvars, svars, cvars, tvars, gate_log>>
NotGateLog == <<GraphRest, bvars, svars, cvars, qvars, tvars>>
NotUsage == <<UnitRest, GraphRest, bvars, svars, cvars, qvars, gate_log>>
gvars == <<target_personas, ctxvars, branch, null_resume, outputs, ctx_left, hist, uvars>>
vars == <<avars, dbvars, orchvars, run, envvars, pre_pause, gvars>>

Runners == 1..MaxRunners

Min(a, b) == IF a < b THEN a ELSE b
Max(a, b) == IF a > b THEN a ELSE b

\* A runner that has not been created yet.
IdleRunner ==
    [pc |-> "idle", i |-> 0, wf |-> 0, wc |-> 0, started |-> FALSE, fails |-> 0,
     site |-> "none", n |-> 0, b |-> 0, wt |-> 0, node |-> 0,
     timed_out |-> FALSE, aborted |-> FALSE, skipped |-> FALSE, wfails |-> 0]

\* A runner just handed to asyncio.create_task.
NewRunner == [IdleRunner EXCEPT !.pc = "init"]


\* ------------------------------------------------- job state machine
\* AnalysisProgressService.is_pause_allowed, on the row as read.
is_pause_allowed(st, stage) ==
    \/ stage \in PAUSE_ALLOWED_STAGES
    \/ st = "analyzing" /\ stage = "NULL"

\* AnalysisProgressService.update_progress: only the values given are written
\* ("NULL" / NONE = argument left at None).
update_progress(stage, pf, tf) ==
    /\ current_stage' = IF stage # "NULL" THEN stage ELSE current_stage
    /\ processed_files' = IF pf # NONE THEN pf ELSE processed_files
    /\ total_files' = IF tf # NONE THEN tf ELSE total_files

start_analysis ==
    /\ status' = "preprocessing"
    /\ current_stage' = "repo_scan"
    /\ UNCHANGED <<paused, paused_for, error_message, processed_files, total_files>>

pause_analysis ==
    /\ status' = "paused"
    /\ paused' = TRUE
    /\ paused_for' = 0
    /\ UNCHANGED <<current_stage, error_message, processed_files, total_files>>

cancel_analysis(reason) ==
    /\ status' = "cancelled"
    /\ paused' = FALSE
    /\ error_message' = reason
    /\ UNCHANGED <<current_stage, paused_for, processed_files, total_files>>

\* The status resume_analysis writes.
resume_status(st, stage) ==
    IF is_pause_allowed(st, stage) THEN "preprocessing" ELSE "analyzing"

resume_analysis ==
    /\ status' = resume_status(status, current_stage)
    /\ paused' = FALSE
    /\ UNCHANGED <<current_stage, paused_for, error_message, processed_files, total_files>>

reset_analysis_for_restart(restart_stage) ==
    /\ paused' = FALSE
    /\ paused_for' = NONE
    /\ error_message' = MSG_NONE
    /\ IF restart_stage = "preprocessing"
       THEN /\ status' = "preprocessing"
            /\ current_stage' = "repo_scan"
            /\ processed_files' = 0
            /\ total_files' = 0
       ELSE /\ status' = "analyzing"
            /\ current_stage' = "agent_orchestration"
            /\ UNCHANGED <<processed_files, total_files>>

complete_analysis ==
    /\ status' = "completed"
    /\ current_stage' = "completed"
    /\ processed_files' = 100
    /\ total_files' = 100
    /\ UNCHANGED <<paused, paused_for, error_message>>

fail_analysis(msg) ==
    /\ status' = "failed"
    /\ error_message' = msg
    /\ UNCHANGED <<current_stage, paused, paused_for, processed_files, total_files>>

\* One poll of wait_if_paused on the row as read: "pass" (return), "wait"
\* (sleep and poll again) or "timeout" (cancel and raise PauseTimeoutError).
timeout_seconds == Max(0, PAUSE_TIMEOUT_MINUTES) * 60

wait_while_paused_at ==
    IF paused_for = NONE THEN "pass"
    ELSE IF ~is_pause_allowed(status, current_stage) THEN "pass"
    ELSE IF timeout_seconds > 0 /\ paused_for * 60 > timeout_seconds THEN "timeout"
    ELSE "wait"

wait_if_paused ==
    IF ~paused THEN "pass"
    ELSE IF ~is_pause_allowed(status, current_stage) THEN "pass"
    ELSE IF paused_for # NONE /\ timeout_seconds > 0 /\ paused_for * 60 > timeout_seconds
         THEN "timeout"
    ELSE "wait"

\* The stage control_analysis restarts a pause-timeout-cancelled analysis from.
restart_stage_of(stage) ==
    IF stage \in PAUSE_ALLOWED_STAGES THEN "preprocessing" ELSE "agent"


\* ------------------------------------------------- runner: control flow
\* Positions inside asyncio.wait_for(self._generate_embeddings(...), timeout=120.0).
InWindow ==
    {"gate509", "gate522", "gate540", "call1", "gate561", "call2", "gate571", "store"}

\* The pause gates, named by the source line of the call.
RunnerGates == {"gate96", "gate128"}
StepGates == {"gate163", "gate198", "gate226", "gate374", "gate415"}
FileGates == {"gate258", "gate326"}
EmbedOuterGates == {"gate509", "gate522"}
EmbedBatchGates == {"gate540", "gate561", "gate571"}
Gates == RunnerGates \cup StepGates \cup FileGates \cup EmbedOuterGates \cup EmbedBatchGates

\* Positions at which a runner task no longer runs.
Ended == {"idle", "done"}

\* `for file in files`: the next file's gate; after the loop (l.367-373) the
\* final window's gate, or the query for the remaining chunks.
LoopHead(rec) ==
    IF rec.i < files THEN "gate226"
    ELSE IF ~OPENAI_API_KEY THEN "to_orchestration"
    ELSE IF rec.wc > 0 THEN "gate374"
    ELSE "remaining_query"

BatchCount(n) == (n + EMBED_BATCH_SIZE - 1) \div EMBED_BATCH_SIZE


\* Chunks of the current batch: chunks[i:i + batch_size].
BatchSize(rec) == Min(EMBED_BATCH_SIZE, rec.n - rec.b * EMBED_BATCH_SIZE)

LeaveWindow(rec) == [rec EXCEPT !.site = "none", !.n = 0, !.b = 0, !.wt = 0]

\* The code after `embedding_count = ...` at the three call sites of
\* _generate_embeddings (file loop, final window, remaining chunks).
AfterEmbedding(rec) ==
    IF rec.site = "loop"
    THEN [LeaveWindow(rec) EXCEPT !.wf = 0, !.wc = 0, !.pc = LoopHead(rec)]
    ELSE IF rec.site = "final"
    THEN [LeaveWindow(rec) EXCEPT !.pc = "remaining_query"]
    ELSE [LeaveWindow(rec) EXCEPT !.pc = "to_orchestration"]

\* `for batch_idx, i in enumerate(range(0, len(chunks), batch_size), 1)`: the
\* next batch's gate, or `return count` to the call site.
BatchHead(rec) ==
    IF rec.b < BatchCount(rec.n) THEN [rec EXCEPT !.pc = "gate522"] ELSE AfterEmbedding(rec)

\* (mutant) the failure threshold off by one: the second failure aborts.
register_raises_early(fails) == fails + 1 > 1

\* _register_embedding_failure: TRUE when it raises the fatal RuntimeError.
register_raises(fails) == fails + 1 > 2

\* _register_embedding_failure called from an except clause inside the batch
\* loop of _generate_embeddings: without a raise the loop continues with the
\* next batch; the RuntimeError is caught by the function's own
\* `except Exception` (return 0).
BatchFailure(rec) ==
    IF register_raises(rec.fails)
    THEN [AfterEmbedding(rec) EXCEPT !.fails = rec.fails + 1, !.aborted = TRUE]
    ELSE BatchHead([rec EXCEPT !.fails = rec.fails + 1, !.b = rec.b + 1])

\* _register_embedding_failure called from `except asyncio.TimeoutError` around
\* wait_for at a call site: in the file loop the RuntimeError is caught by the
\* per-file `except Exception` (continue, window kept); at the other two sites
\* it leaves preprocess_project and reaches the runner's `except Exception`.
WindowFailure(rec0) ==
    LET rec == [rec0 EXCEPT !.wfails = rec0.wfails + 1] IN
    IF register_raises(rec.fails)
    THEN IF rec.site = "loop"
         THEN [LeaveWindow(rec) EXCEPT !.fails = rec.fails + 1, !.aborted = TRUE,
                                       !.pc = LoopHead(rec)]
         ELSE [LeaveWindow(rec) EXCEPT !.fails = rec.fails + 1, !.aborted = TRUE,
                                       !.pc = "fail"]
    ELSE [AfterEmbedding(rec) EXCEPT !.fails = rec.fails + 1]

\* AnalysisOrchestrator.run, l.183-186: the first ainvoke of a run is given
\* payload = initial_state, i.e. new input for the thread: the graph starts at
\* its entry point whatever the thread's checkpoint holds.  (A run continues
\* from a checkpoint only when invoked with None or a Command.)
entry_node(cp) == 1

\* Where a runner continues when wait_if_paused returns at a gate.
GatePassed(rec) ==
    CASE rec.pc = "gate96" -> [rec EXCEPT !.pc = "gate163", !.fails = 0]
      [] rec.pc = "gate163" -> [rec EXCEPT !.pc = "scan"]
      [] rec.pc = "gate198" -> [rec EXCEPT !.pc = LoopHead(rec)]
      [] rec.pc = "gate226" -> [rec EXCEPT !.pc = "file_progress"]
      [] rec.pc = "gate258" -> [rec EXCEPT !.pc = "parse"]
      [] rec.pc = "gate326" -> [rec EXCEPT !.pc = "embed_enter", !.site = "loop", !.n = rec.wc]
      [] rec.pc = "gate374" -> [rec EXCEPT !.pc = "embed_enter", !.site = "final", !.n = rec.wc]
      [] rec.pc = "gate415" -> [rec EXCEPT !.pc = "embed_enter", !.site = "remaining"]
      [] rec.pc = "gate509" -> BatchHead(rec)
      [] rec.pc = "gate522" -> [rec EXCEPT !.pc = "gate540"]
      [] rec.pc = "gate540" -> [rec EXCEPT !.pc = "call1"]
      [] rec.pc = "gate561" -> [rec EXCEPT !.pc = "call2"]
      [] rec.pc = "gate571" -> [rec EXCEPT !.pc = "store"]
      [] rec.pc = "gate128" -> [rec EXCEPT !.pc = "node", !.node = entry_node(checkpoint)]

\* Where a runner continues when wait_if_paused raises PauseTimeoutError at a
\* gate: the innermost enclosing handler that catches Exception decides.
GateRaised(rec) ==
    LET t == [rec EXCEPT !.timed_out = TRUE] IN
    CASE rec.pc \in RunnerGates -> [t EXCEPT !.pc = "done"]
      [] rec.pc \in StepGates -> [LeaveWindow(t) EXCEPT !.pc = "done"]
      [] rec.pc \in FileGates -> [t EXCEPT !.pc = LoopHead(t)]
      [] rec.pc \in EmbedOuterGates -> AfterEmbedding(t)
      [] rec.pc \in EmbedBatchGates -> BatchFailure(t)


\* ------------------------------------------------------------------ time
\* One minute passes: every clock the code reads moves on.
AdvancedRun ==
    [q \in Runners |->
        IF run[q].pc \in InWindow
        THEN [run[q] EXCEPT !.wt = Min(run[q].wt + 1, EMBED_WINDOW_TIMEOUT_MINUTES)]
        ELSE run[q]]

AdvancedPause ==
    IF paused /\ paused_for # NONE
    THEN Min(paused_for + 1, PAUSE_TIMEOUT_MINUTES + 1)
    ELSE paused_for

\* wait_for fires at its deadline: time does not pass beyond it.
CanTick == \A q \in Runners : run[q].pc \in InWindow => run[q].wt < EMBED_WINDOW_TIMEOUT_MINUTES

Tick ==
    /\ CanTick
    /\ \/ paused /\ paused_for # NONE /\ paused_for <= PAUSE_TIMEOUT_MINUTES
       \/ \E q \in Runners : run[q].pc \in InWindow
    /\ paused_for' = AdvancedPause
    /\ run' = AdvancedRun
    /\ UNCHANGED <<status, current_stage, paused, error_message, processed_files, total_files>>
    /\ UNCHANGED <<dbvars, orchvars, envvars, pre_pause, gvars>>

\* ------------------------------------------------------- runner: actions
\* run_analysis_job, l.26-33: read the row, decide skip_preprocessing.
skip_preprocessing(stage) == stage \in {"agent_orchestration", "documentation_generation"}

RunInit(r) ==
    /\ run[r].pc = "init"
    /\ run' = [run EXCEPT ![r].pc = IF skip_preprocessing(current_stage) THEN "gate128" ELSE "start",
                          ![r].skipped = skip_preprocessing(current_stage)]
    /\ UNCHANGED <<avars, dbvars, orchvars, envvars, pre_pause, gvars>>

\* l.45: progress.start_analysis.
RunStart(r) ==
    /\ run[r].pc = "start"
    /\ start_analysis
    /\ run' = [run EXCEPT ![r].pc = "gate96"]
    /\ UNCHANGED <<dbvars, orchvars, envvars, pre_pause, gvars>>

\* A pause gate lets the runner through.
GatePass(r) ==
    /\ run[r].pc \in Gates
    /\ wait_if_paused = "pass"
    /\ run' = [run EXCEPT ![r] = GatePassed(run[r])]
    /\ UNCHANGED <<avars, dbvars, orchvars, envvars, pre_pause, gvars>>

\* A pause gate finds the pause timed out: cancel_analysis, then PauseTimeoutError.
GateTimeout(r) ==
    /\ run[r].pc \in Gates
    /\ wait_if_paused = "timeout"
    /\ cancel_analysis(MSG_PAUSE_TIMEOUT)
    /\ run' = [run EXCEPT ![r] = GateRaised(run[r])]
    /\ pre_pause' = NO_PAUSE
    /\ UNCHANGED <<dbvars, orchvars, envvars, gvars>>

\* A RepositoryMetadata table without the unique constraint.
insert_unconstrained(rows) == TRUE

\* RepositoryMetadata.project_id is unique: the insert of a row is accepted
\* only when the project has none.
insert_accepted(rows) == rows = 0

\* preprocess_project step 1: RepositoryAnalyzer.analyze, RepositoryMetadata
\* row.  A refused insert raises IntegrityError at the commit; the handler of
\* preprocess_project (l.487-500) re-raises and the runner's `except
\* Exception` calls fail_analysis(str(e)).
Scan(r) ==
    /\ run[r].pc = "scan"
    /\ IF insert_accepted(repo_meta_rows)
       THEN /\ repo_meta_rows' = repo_meta_rows + 1
            /\ run' = [run EXCEPT ![r].pc = "gate198"]
            /\ UNCHANGED avars
       ELSE /\ fail_analysis(MSG_INTEGRITY)
            /\ run' = [run EXCEPT ![r].pc = "done"]
            /\ UNCHANGED repo_meta_rows
    /\ UNCHANGED <<files, chunks_unembedded, chunks_embedded, orchvars, envvars, pre_pause, gvars>>

\* File loop, l.235-246: file_count += 1 and the progress event, which the
\* runner's progress_callback turns into update_progress(code_chunking, ...).
FileProgress(r) ==
    /\ run[r].pc = "file_progress"
    /\ update_progress("code_chunking", run[r].i + 1, files)
    /\ run' = [run EXCEPT ![r].i = run[r].i + 1, ![r].pc = "gate258"]
    /\ UNCHANGED <<status, paused, paused_for, error_message, dbvars, orchvars, envvars, pre_pause, gvars>>

\* `window_files >= EMBED_FILES_PER_WINDOW or len(window_chunks) >= EMBED_MAX_CHUNKS_PER_WINDOW`
WindowFull(wf, wc) ==
    OPENAI_API_KEY /\ wc > 0 /\ (wf >= EMBED_FILES_PER_WINDOW \/ wc >= EMBED_MAX_CHUNKS_PER_WINDOW)

\* File loop, l.260-325: parse the file, store FileMetadata and CodeChunk rows.
Parse(r) ==
    /\ run[r].pc = "parse"
    /\ chunks_unembedded' = chunks_unembedded + ChunksPerFile
    /\ LET rec == [run[r] EXCEPT !.wf = run[r].wf + 1, !.wc = run[r].wc + ChunksPerFile] IN
       run' = [run EXCEPT ![r] =
                 IF ChunksPerFile = 0 THEN [run[r] EXCEPT !.pc = LoopHead(run[r])]
                 ELSE IF WindowFull(rec.wf, rec.wc) THEN [rec EXCEPT !.pc = "gate326"]
                 ELSE [rec EXCEPT !.pc = LoopHead(rec)]]
    /\ UNCHANGED <<avars, files, repo_meta_rows, chunks_embedded, orchvars, envvars, pre_pause, gvars>>

\* Before each wait_for(_generate_embeddings): the first time, the
\* embedding_generation progress event; then the window starts.
EmbedEnter(r) ==
    /\ run[r].pc = "embed_enter"
    /\ IF run[r].started
       THEN UNCHANGED <<current_stage, processed_files, total_files>>
       ELSE update_progress("embedding_generation", run[r].i, files)
    /\ run' = [run EXCEPT ![r].started = TRUE, ![r].b = 0, ![r].wt = 0, ![r].pc = "gate509"]
    /\ UNCHANGED <<status, paused, paused_for, error_message, dbvars, orchvars, envvars, pre_pause, gvars>>

\* client.embeddings.create answers in time.
CallOk(r) ==
    /\ run[r].pc \in {"call1", "call2"}
    /\ run' = [run EXCEPT ![r].pc = "gate571"]
    /\ UNCHANGED <<avars, dbvars, orchvars, envvars, pre_pause, gvars>>

\* client.embeddings.create raises (provider error): no retry, the batch's
\* `except Exception` registers the failure.
CallError(r) ==
    /\ run[r].pc \in {"call1", "call2"}
    /\ faults_left > 0
    /\ faults_left' = faults_left - 1
    /\ run' = [run EXCEPT ![r] = BatchFailure(run[r])]
    /\ UNCHANGED <<avars, dbvars, orchvars, ops_left, pre_pause, gvars>>

\* (mutant) the retry issued straight from the except clause.
retry_ungated(rec) == [rec EXCEPT !.pc = "call2"]

\* `except asyncio.TimeoutError` of the first call, l.555-561: the warning
\* event, then `await self._maybe_pause()` before the retry.
retry_after_timeout(rec) == [rec EXCEPT !.pc = "gate561"]

\* The 60 s wait_for around the call expires (a minute passes): the first
\* time the call is retried behind a gate, the second time the batch's
\* `except asyncio.TimeoutError` registers the failure.  A call started in the
\* second minute of the window is cut off by the window's own deadline first.
CallTimeout(r) ==
    /\ run[r].pc \in {"call1", "call2"}
    /\ faults_left > 0
    /\ CanTick
    /\ run[r].wt + 1 < EMBED_WINDOW_TIMEOUT_MINUTES
    /\ faults_left' = faults_left - 1
    /\ paused_for' = AdvancedPause
    /\ run' = [AdvancedRun EXCEPT ![r] =
                 IF run[r].pc = "call1"
                 THEN retry_after_timeout(AdvancedRun[r])
                 ELSE BatchFailure(AdvancedRun[r])]
    /\ UNCHANGED <<status, current_stage, paused, error_message, processed_files, total_files>>
    /\ UNCHANGED <<dbvars, orchvars, ops_left, pre_pause, gvars>>

\* l.574-581: the batch's vectors are attached and committed.
Store(r) ==
    /\ run[r].pc = "store"
    /\ LET k == Min(BatchSize(run[r]), chunks_unembedded) IN
       /\ chunks_unembedded' = chunks_unembedded - k
       /\ chunks_embedded' = chunks_embedded + k
    /\ run' = [run EXCEPT ![r] = BatchHead([run[r] EXCEPT !.b = run[r].b + 1])]
    /\ UNCHANGED <<avars, files, repo_meta_rows, orchvars, envvars, pre_pause, gvars>>

\* asyncio.wait_for(..., timeout=120.0) cancels _generate_embeddings, also
\* while it sleeps in a pause gate; the call site registers the failure.
WindowTimeout(r) ==
    /\ run[r].pc \in InWindow
    /\ run[r].wt >= EMBED_WINDOW_TIMEOUT_MINUTES
    /\ run' = [run EXCEPT ![r] = WindowFailure(run[r])]
    /\ UNCHANGED <<avars, dbvars, orchvars, envvars, pre_pause, gvars>>

\* l.407-414: select the project's chunks with embedding == None.
RemainingQuery(r) ==
    /\ run[r].pc = "remaining_query"
    /\ run' = [run EXCEPT ![r].n = chunks_unembedded,
                          ![r].pc = IF chunks_unembedded > 0 THEN "gate415" ELSE "to_orchestration"]
    /\ UNCHANGED <<avars, dbvars, orchvars, envvars, pre_pause, gvars>>

\* Runner l.108-113: progress restarts at 0/100 for the agent phase.
ToOrchestration(r) ==
    /\ run[r].pc = "to_orchestration"
    /\ update_progress("agent_orchestration", 0, 100)
    /\ run' = [run EXCEPT ![r].pc = "set_analyzing"]
    /\ UNCHANGED <<status, paused, paused_for, error_message, dbvars, orchvars, envvars, pre_pause, gvars>>

\* Runner l.114-119: status = ANALYZING, whatever the status was.
SetAnalyzing(r) ==
    /\ run[r].pc = "set_analyzing"
    /\ status' = "analyzing"
    /\ run' = [run EXCEPT ![r].pc = "gate128"]
    /\ UNCHANGED <<current_stage, paused, paused_for, error_message, processed_files, total_files>>
    /\ UNCHANGED <<dbvars, orchvars, envvars, pre_pause, gvars>>

\* Runner l.249-259: `except Exception`: log the error, fail_analysis(str(e)).
RunFail(r) ==
    /\ run[r].pc = "fail"
    /\ fail_analysis(MSG_EMBED_ABORT)
    /\ run' = [run EXCEPT ![r].pc = "done"]
    /\ UNCHANGED <<dbvars, orchvars, envvars, pre_pause, gvars>>


\* A text of n characters.
RECURSIVE Rep(_, _)
Rep(c, n) == IF n <= 0 THEN "" ELSE c \o Rep(c, n - 1)

\* Project.source_path of a GitHub project: a short URL and one of MaxUrlLen characters.
GithubUrls == {"https://github.com/o/r", "https://github.com/" \o Rep("a", MaxUrlLen - 19)}

\* What git writes to stderr when the repository cannot be cloned.
git_stderr(github_url) == "fatal: repository '" \o github_url \o "' not found"

\* clone_github_repo l.202-205: GitHubAccessException(detail).
clone_error(github_url) == "Failed to clone repository: " \o git_stderr(github_url)

\* str(e) of an HTTPException: "<status_code>: <detail>", or "" with a
\* framework version whose HTTPException has no __str__ (none is pinned).
exception_str(detail) == {"400: " \o detail, ""}

\* The text of the runner's error log entry, l.250-255.
failure_log(text) == "Analysis failed: " \o SubSeq(text, 1, Min(Len(text), LOG_MESSAGE_CHARS))

\* Runner l.98-103 and l.249-259: the project is a GitHub project and the
\* clone fails; `except Exception` logs and calls fail_analysis(str(e)).
CloneFail(r) ==
    /\ run[r].pc = "gate163"
    /\ faults_left > 0
    /\ faults_left' = faults_left - 1
    /\ \E github_url \in GithubUrls : \E text \in exception_str(clone_error(github_url)) :
          fail_analysis(text)
    /\ run' = [run EXCEPT ![r].pc = "done"]
    /\ UNCHANGED <<dbvars, orchvars, ops_left, pre_pause, gvars>>

\* ---------------------------------------------------------- orchestrator
\* processed_files written by the node's update_progress (total_files = 100).
node_progress(k) ==
    CASE k = 1 -> {NONE}
      [] k = 2 -> {20}
      [] k = 3 -> {40}
      [] k = 4 -> {60, 80}
      [] k = 5 -> {100}

\* One graph node runs, reports progress, and the superstep is checkpointed.
\* Node 4 stands for the writer superstep (sde_doc and pm_doc): the stored
\* progress is the value of the branch that commits last.
ExecNode(r) ==
    /\ run[r].pc = "node"
    /\ LET k == run[r].node IN
       /\ node_runs' = [node_runs EXCEPT ![k] = node_runs[k] + 1]
       /\ checkpoint' = checkpoint \cup {k}
       /\ \E pf \in node_progress(k) :
             update_progress("NULL", pf, IF pf = NONE THEN NONE ELSE 100)
       /\ run' = [run EXCEPT ![r].node = IF k < Len(GraphNodes) THEN k + 1 ELSE 0,
                             ![r].pc = IF k < Len(GraphNodes) THEN "node" ELSE "doc_stage"]
    /\ UNCHANGED <<status, paused, paused_for, error_message, dbvars, artifacts_written,
                   envvars, pre_pause, gvars>>

\* Runner l.161-164: update_progress(stage=DOCUMENTATION_GENERATION).
DocStage(r) ==
    /\ run[r].pc = "doc_stage"
    /\ update_progress("documentation_generation", NONE, NONE)
    /\ run' = [run EXCEPT ![r].pc = "artifacts"]
    /\ UNCHANGED <<status, paused, paused_for, error_message, dbvars, orchvars, envvars, pre_pause, gvars>>

\* Runner l.230-234: write_session.add_all(artifacts); commit.
PersistArtifacts(r) ==
    /\ run[r].pc = "artifacts"
    /\ artifacts_written' = artifacts_written + 1
    /\ run' = [run EXCEPT ![r].pc = "complete"]
    /\ UNCHANGED <<avars, dbvars, checkpoint, node_runs, envvars, pre_pause, gvars>>

\* Runner l.243-245: complete_analysis.
RunComplete(r) ==
    /\ run[r].pc = "complete"
    /\ complete_analysis
    /\ run' = [run EXCEPT ![r].pc = "done"]
    /\ UNCHANGED <<dbvars, orchvars, envvars, pre_pause, gvars>>

\* ------------------------------------------------------- control requests
\* POST /{analysis_id}/control, action "pause": 409 unless is_pause_allowed.
HttpPause ==
    /\ ops_left > 0
    /\ ops_left' = ops_left - 1
    /\ IF is_pause_allowed(status, current_stage)
       THEN pause_analysis /\ pre_pause' = <<status, current_stage>>
       ELSE UNCHANGED <<avars, pre_pause>>
    /\ UNCHANGED <<dbvars, orchvars, run, faults_left, gvars>>

\* WebSocket command "pause": pause_analysis, no check.
WsPause ==
    /\ ops_left > 0
    /\ ops_left' = ops_left - 1
    /\ pause_analysis
    /\ pre_pause' = <<status, current_stage>>
    /\ UNCHANGED <<dbvars, orchvars, run, faults_left, gvars>>

\* `"pause timeout" in (analysis.error_message or "").lower()`
is_pause_timeout(msg) == msg = MSG_PAUSE_TIMEOUT

FreeRunner == CHOOSE q \in Runners : run[q].pc = "idle" /\ \A p \in Runners : run[p].pc = "idle" => q <= p

\* POST /{analysis_id}/control, action "resume": a pause-timeout-cancelled
\* analysis is reset and a new runner task is created; otherwise resume_analysis.
HttpResume ==
    /\ ops_left > 0
    /\ ops_left' = ops_left - 1
    /\ IF status = "cancelled" /\ is_pause_timeout(error_message)
       THEN /\ \E q \in Runners : run[q].pc = "idle"
            /\ reset_analysis_for_restart(restart_stage_of(current_stage))
            /\ run' = [run EXCEPT ![FreeRunner] = NewRunner]
       ELSE /\ resume_analysis
            /\ UNCHANGED run
    /\ pre_pause' = NO_PAUSE
    /\ UNCHANGED <<dbvars, orchvars, faults_left, gvars>>

\* WebSocket command "resume": resume_analysis.
WsResume ==
    /\ ops_left > 0
    /\ ops_left' = ops_left - 1
    /\ resume_analysis
    /\ pre_pause' = NO_PAUSE
    /\ UNCHANGED <<dbvars, orchvars, run, faults_left, gvars>>

\* ------------------------------------------- orchestrator: writer superstep
\* The instructions clients send: {text, scope}.
Texts == {"X", "Y"}
Scopes == {"global", "file"}
Instruction == [text : Texts, scope : Scopes]

Branches == {"sde_doc", "pm_doc"}

\* CoordinatorAgent.run: the routing flags written to the graph state.
coordinator(personas) == [run_sde |-> personas.sde, run_pm |-> personas.pm]

\* AnalysisOrchestrator._route_personas.
route_personas(st) ==
    LET routes == (IF st.run_sde THEN {"sde_doc"} ELSE {}) \cup
                  (IF st.run_pm THEN {"pm_doc"} ELSE {})
    IN IF routes = {} THEN {"pm_doc"} ELSE routes

\* The writer agent of a branch produces output: SDEAgent always, PMAgent
\* unless state["run_pm"] is false ("skipped (persona not selected)").
writer_produces(b, st) == IF b = "sde_doc" THEN TRUE ELSE st.run_pm

\* `latest = instructions[-1] if instructions else {}`, read with
\* .get("text", "") and .get("scope", "global").
latest_of(instrs) ==
    IF Len(instrs) > 0
    THEN [text |-> instrs[Len(instrs)].text, scope |-> instrs[Len(instrs)].scope]
    ELSE [text |-> "", scope |-> "global"]

\* A writer task that is not scheduled.
BranchOff == [pc |-> "off", snap |-> <<>>, value |-> latest_of(<<>>)]

NO_RESUME == [value |-> latest_of(<<>>), takers |-> {}, mode |-> "none"]

NoHist == [clears |-> 0, resumes |-> 0]

\* No graph run has reached the writers.
GraphIdle ==
    /\ branch = [b \in Branches |-> BranchOff]
    /\ null_resume = NO_RESUME
    /\ outputs = {}
    /\ hist = NoHist

Interrupted == {b \in Branches : branch[b].pc = "interrupted"}

\* HumanInputAgent.run after interrupt() has returned `response`: the list
\* the agent stores, built from the instructions it read at its start.
merged_instructions(snap, response) ==
    IF response.text # "" /\ response.text # latest_of(snap).text
    THEN Append(snap, [text |-> response.text, scope |-> response.scope])
    ELSE snap

\* add_user_context on the row as read; `detected` tells whether the flush
\* writes the column: a loaded user_context is mutated in place and the same
\* dict is assigned back, so the flush compares the dict with itself; only a
\* row without user_context gets a new dict.  The entry's timestamp key is
\* left out.
add_user_context(context, detected) ==
    IF status \in {"completed", "failed", "cancelled"}
    THEN UNCHANGED ctxvars
    ELSE IF detected
    THEN /\ instructions' = Append(instructions, context)
         /\ pending_context' = (pending_context \/ current_stage = "agent_orchestration")
    ELSE UNCHANGED ctxvars

\* POST /{analysis_id}/control, action "add_context", and the WebSocket
\* command "add_context".
AddContext ==
    /\ ctx_left > 0
    /\ ctx_left' = ctx_left - 1
    /\ \E context \in Instruction, detected \in BOOLEAN : add_user_context(context, detected)
    /\ UNCHANGED <<avars, dbvars, orchvars, run, envvars, pre_pause>>
    /\ UNCHANGED <<target_personas, branch, null_resume, outputs, hist, uvars>>

\* web_search has run: the conditional edge schedules the writer tasks.
RouteWriters(r) ==
    /\ run[r].pc = "node" /\ run[r].node = 4
    /\ branch' = [b \in Branches |->
                    IF b \in route_personas(coordinator(target_personas))
                    THEN [BranchOff EXCEPT !.pc = "human"] ELSE BranchOff]
    /\ outputs' = {}
    /\ null_resume' = NO_RESUME
    /\ run' = [run EXCEPT ![r].pc = "writers"]
    /\ UNCHANGED <<avars, dbvars, orchvars, envvars, pre_pause>>
    /\ UNCHANGED <<target_personas, ctxvars, ctx_left, hist, uvars>>

\* A resume value is there for task b to take at interrupt().
CanTake(b) == b \in null_resume.takers

Taken(b) ==
    IF null_resume.mode = "first" THEN NO_RESUME
    ELSE IF null_resume.takers = {b} THEN NO_RESUME
    ELSE [null_resume EXCEPT !.takers = null_resume.takers \ {b}]

\* HumanInputAgent.run up to interrupt(): read the analysis; finished
\* analysis or nothing pending: on to the writer; else interrupt(prompt),
\* which returns the resume value if one is there and otherwise suspends the
\* task with the prompt {type, resume_with: text and scope of the latest}.
HumanRead(r, b) ==
    /\ run[r].pc = "writers"
    /\ branch[b].pc = "human"
    /\ IF status \in {"completed", "failed", "cancelled"} \/ ~pending_context
       THEN /\ branch' = [branch EXCEPT ![b].pc = "writer"]
            /\ UNCHANGED null_resume
       ELSE IF CanTake(b)
       THEN /\ branch' = [branch EXCEPT ![b] = [pc |-> "apply", snap |-> instructions,
                                                value |-> null_resume.value]]
            /\ null_resume' = Taken(b)
       ELSE /\ branch' = [branch EXCEPT ![b] = [pc |-> "interrupted", snap |-> <<>>,
                                                value |-> latest_of(instructions)]]
            /\ UNCHANGED null_resume
    /\ UNCHANGED <<avars, dbvars, orchvars, run, envvars, pre_pause>>
    /\ UNCHANGED <<target_personas, ctxvars, outputs, ctx_left, hist, uvars>>

\* HumanInputAgent.run after interrupt(): merge the response, clear
\* pending_context, store user_context and commit.
HumanApply(r, b) ==
    /\ run[r].pc = "writers"
    /\ branch[b].pc = "apply"
    /\ instructions' = merged_instructions(branch[b].snap, branch[b].value)
    /\ pending_context' = FALSE
    /\ hist' = [hist EXCEPT !.clears = hist.clears + 1]
    /\ branch' = [branch EXCEPT ![b] = [BranchOff EXCEPT !.pc = "writer"]]
    /\ UNCHANGED <<avars, dbvars, orchvars, run, envvars, pre_pause>>
    /\ UNCHANGED <<target_personas, null_resume, outputs, ctx_left, uvars>>

\* SDEAgent.run / PMAgent.run and the node's update_progress (60 or 80 of 100).
WriterRun(r, b) ==
    /\ run[r].pc = "writers"
    /\ branch[b].pc = "writer"
    /\ outputs' = IF writer_produces(b, coordinator(target_personas))
                  THEN outputs \cup {b} ELSE outputs
    /\ update_progress("NULL", IF b = "sde_doc" THEN 60 ELSE 80, 100)
    /\ branch' = [branch EXCEPT ![b].pc = "done"]
    /\ UNCHANGED <<status, paused, paused_for, error_message>>
    /\ UNCHANGED <<dbvars, orchvars, run, envvars, pre_pause>>
    /\ UNCHANGED <<target_personas, ctxvars, null_resume, ctx_left, hist, uvars>>

Scheduled == {b \in Branches : branch[b].pc # "off"}

\* The superstep taken as over when the first writer task has returned.
SuperstepOverFirst ==
    Scheduled # {} /\ \E b \in Scheduled : branch[b].pc \in {"done", "interrupted"}

\* Every task of the writer superstep has returned or is suspended.
SuperstepOver == Scheduled # {} /\ \A b \in Scheduled : branch[b].pc \in {"done", "interrupted"}

\* The edges sde_doc -> join and pm_doc -> join: join is scheduled when the
\* writer superstep has ended with no task suspended.
join_ready == SuperstepOver /\ Interrupted = {}

\* End of the writer superstep: the checkpoint is written and either join is
\* next or ainvoke returns the interrupts to AnalysisOrchestrator.run.
SuperstepEnd(r) ==
    /\ run[r].pc = "writers"
    /\ SuperstepOver
    /\ IF join_ready
       THEN /\ node_runs' = [node_runs EXCEPT ![4] = node_runs[4] + 1]
            /\ checkpoint' = checkpoint \cup {4}
            /\ run' = [run EXCEPT ![r].node = 5, ![r].pc = "node"]
       ELSE /\ run' = [run EXCEPT ![r].pc = "interrupt_loop"]
            /\ UNCHANGED <<node_runs, checkpoint>>
    /\ UNCHANGED <<avars, dbvars, artifacts_written, envvars, pre_pause, gvars>>

\* What graph.ainvoke(Command(resume=v)) does with one resume value and
\* several suspended tasks; no version of the graph library is pinned:
\* "all" hands v to every suspended task, "first" to the one that asks
\* first, "reject" raises RuntimeError.
ResumeModes == {"all", "first", "reject"}
MSG_MULTI_INTERRUPT == "When there are multiple pending interrupts, you must specify the interrupt id when resuming"

\* AnalysisOrchestrator.run, one turn of the loop after ainvoke has returned
\* "__interrupt__": resume_value = interrupts[0].value["resume_with"] and
\* payload = Command(resume=resume_value); the suspended tasks start again
\* from the top of their node.
OrchResume(r) ==
    /\ run[r].pc = "interrupt_loop"
    /\ \E first \in Interrupted, mode \in ResumeModes :
         /\ (Cardinality(Interrupted) = 1) => mode = "all"
         /\ IF mode = "reject"
            THEN /\ fail_analysis(MSG_MULTI_INTERRUPT)
                 /\ run' = [run EXCEPT ![r].pc = "done"]
                 /\ UNCHANGED <<branch, null_resume, hist>>
            ELSE /\ null_resume' = [value |-> branch[first].value,
                                    takers |-> Interrupted, mode |-> mode]
                 /\ branch' = [b \in Branches |->
                                 IF b \in Interrupted
                                 THEN [BranchOff EXCEPT !.pc = "human"] ELSE branch[b]]
                 /\ hist' = [clears |-> 0, resumes |-> hist.resumes + 1]
                 /\ run' = [run EXCEPT ![r].pc = "writers"]
                 /\ UNCHANGED avars
    /\ UNCHANGED <<dbvars, orchvars, envvars, pre_pause>>
    /\ UNCHANGED <<target_personas, ctxvars, outputs, ctx_left, uvars>>

\* ------------------------------------------------ progress broadcasting
Sockets == 1..MaxSubscribers
Callers == 1..MaxBroadcasts

\* A call of update_progress or log_event that has not started.
IdleCall == [pc |-> "idle", op |-> "none", i |-> 0, disconnected |-> <<>>,
             received |-> {}, raised |-> FALSE]

\* list.remove(x): the list without its first x.
RECURSIVE list_remove(_, _)
list_remove(list, x) ==
    IF list = <<>> THEN <<>>
    ELSE IF Head(list) = x THEN Tail(list)
    ELSE <<Head(list)>> \o list_remove(Tail(list), x)

Elems(list) == {list[k] : k \in 1..Len(list)}

\* ConnectionManager.disconnect for each socket of `disconnected` in turn, on
\* the list `conns`: [conns, raised].  The key of an emptied list is deleted
\* and later sockets are skipped; list.remove of a socket that is no longer
\* in the list raises ValueError, which ends the clean-up.
RECURSIVE clean_up(_, _)
clean_up(conns, disconnected) ==
    IF disconnected = <<>> THEN [conns |-> conns, raised |-> FALSE]
    ELSE IF conns = <<>> THEN clean_up(conns, Tail(disconnected))
    ELSE IF Head(disconnected) \in Elems(conns)
    THEN clean_up(list_remove(conns, Head(disconnected)), Tail(disconnected))
    ELSE [conns |-> conns, raised |-> TRUE]

\* update_progress l.96-101 / log_event l.136-138: the change is committed
\* in its own session, then the broadcast starts.
CommitMutation(t) ==
    /\ bc[t].pc = "idle"
    /\ \E op \in {"update_progress", "log_event"} :
          bc' = [bc EXCEPT ![t] = [IdleCall EXCEPT
                    !.op = op,
                    !.pc = IF active_connections = <<>> THEN "returned" ELSE "sending"]]
    /\ UNCHANGED <<active_connections, sockets, NotBroadcast>>

\* ConnectionManager.broadcast, one turn of `for websocket in
\* self.active_connections[analysis_id]`: the iterator reads the list at its
\* index, send_json is awaited; a failed send puts the socket on `disconnected`.
SendNext(t) ==
    /\ bc[t].pc = "sending"
    /\ bc[t].i < Len(active_connections)
    /\ LET ws == active_connections[bc[t].i + 1] IN
         bc' = [bc EXCEPT ![t].i = bc[t].i + 1,
                          ![t].received = IF sockets[ws] = "open" THEN bc[t].received \cup {ws}
                                          ELSE bc[t].received,
                          ![t].disconnected = IF sockets[ws] = "open" THEN bc[t].disconnected
                                              ELSE Append(bc[t].disconnected, ws)]
    /\ UNCHANGED <<active_connections, sockets, NotBroadcast>>

\* The iterator is exhausted: the disconnected sockets are cleaned up, and
\* whatever the broadcast raised is swallowed by `except Exception: pass`
\* of update_progress / log_event, which returns.
FinishBroadcast(t) ==
    /\ bc[t].pc = "sending"
    /\ bc[t].i >= Len(active_connections)
    /\ LET res == clean_up(active_connections, bc[t].disconnected) IN
         /\ active_connections' = res.conns
         /\ bc' = [bc EXCEPT ![t].pc = "returned", ![t].raised = res.raised]
    /\ UNCHANGED <<sockets, NotBroadcast>>

\* The connection of a subscribed client breaks.
Break(ws) ==
    /\ sockets[ws] = "open"
    /\ sockets' = [sockets EXCEPT ![ws] = "broken"]
    /\ UNCHANGED <<active_connections, bc, NotBroadcast>>

\* websocket_analysis_progress, `except WebSocketDisconnect`: the handler of
\* a broken connection calls manager.disconnect.
HandlerDisconnect(ws) ==
    /\ sockets[ws] = "broken"
    /\ sockets' = [sockets EXCEPT ![ws] = "closed"]
    /\ active_connections' = IF ws \in Elems(active_connections)
                             THEN list_remove(active_connections, ws)
                             ELSE active_connections
    /\ UNCHANGED <<bc, NotBroadcast>>

\* ---------------------------------------------------------- specification
\* POST /analysis has created the row (status pending) and the runner task.
Created ==
    /\ status = "pending"
    /\ current_stage = "NULL"
    /\ paused = FALSE
    /\ paused_for = NONE
    /\ error_message = MSG_NONE
    /\ processed_files = 0
    /\ total_files = 0
    /\ repo_meta_rows = 0
    /\ chunks_unembedded = 0
    /\ chunks_embedded = 0
    /\ artifacts_written = 0
    /\ checkpoint = {}
    /\ node_runs = [k \in 1..Len(GraphNodes) |-> 0]
    /\ run = [q \in Runners |-> IF q = 1 THEN NewRunner ELSE IdleRunner]
    /\ pre_pause = NO_PAUSE

\* No client is subscribed and no call is broadcasting.
BroadcastIdle ==
    /\ active_connections = <<>>
    /\ sockets = [ws \in Sockets |-> "closed"]
    /\ bc = [t \in Callers |-> IdleCall]

LogWriters == 1..MaxLogWriters

NO_USAGE == [pc |-> "idle", tokens |-> 0, current_tokens |-> 0]

NO_SEARCH == [corpus |-> <<>>, query |-> <<0, 0>>, limit |-> 0, similarity_threshold |-> 0,
              state |-> "none"]

\* A content is the sequence of its lines, a line is its number of characters.
NO_CHUNK == [name |-> "", content |-> <<>>, start_line |-> 0, end_line |-> 0, docstring |-> FALSE]

\* No log row is being written and the client's stream has yielded nothing.
StreamIdle ==
    /\ clock = 0
    /\ analysis_logs = [w \in LogWriters |-> [pc |-> "idle", timestamp |-> NONE]]
    /\ stream = [last_log_ts |-> NONE, yielded |-> <<>>]

\* No unit has been handed to the splitter.
SplitterIdle ==
    /\ raw_chunk = NO_CHUNK
    /\ split_chunks = <<>>

\* No gate has logged anything.
GateLogIdle ==
    gate_log = [r \in 1..MaxRunners |->
                  [logged_waiting |-> FALSE, waits |-> 0, released |-> 0,
                   blocked_at |-> "none", released_at |-> "none"]]

\* No search has been asked for.
SearchIdle ==
    /\ search = NO_SEARCH
    /\ results = <<>>

\* No usage has been recorded.
UsageIdle ==
    /\ total_tokens_used = 0
    /\ usage = [t \in 1..MaxRecorders |-> NO_USAGE]

UnitsIdle ==
    BroadcastIdle /\ StreamIdle /\ SplitterIdle /\ SearchIdle /\ UsageIdle /\ GateLogIdle

\* POST /analysis with target_personas omitted and no initial_context; no
\* client adds context.
NoContext ==
    /\ target_personas = [sde |-> TRUE, pm |-> TRUE]
    /\ instructions = <<>>
    /\ pending_context = FALSE
    /\ ctx_left = 0

\* Steps of run_analysis_job that happen whatever the clients and the provider do.
PipelineStep(r) ==
    \/ RunInit(r) \/ RunStart(r) \/ GatePass(r)
    \/ Scan(r) \/ FileProgress(r) \/ Parse(r) \/ EmbedEnter(r)
    \/ CallOk(r) \/ Store(r) \/ WindowTimeout(r) \/ RemainingQuery(r)
    \/ ToOrchestration(r) \/ SetAnalyzing(r) \/ RunFail(r)
    \/ ExecNode(r) \/ DocStage(r) \/ PersistArtifacts(r) \/ RunComplete(r)

ProviderFault(r) == CallError(r) \/ CallTimeout(r)

Control == HttpPause \/ WsPause \/ HttpResume \/ WsResume

\* Lifecycle specification: clients pause and resume the analysis of a
\* repository of at most one embedding window; the provider may fail.
Init ==
    /\ Created
    /\ GraphIdle
    /\ UnitsIdle
    /\ NoContext
    /\ files \in 1..EMBED_FILES_PER_WINDOW
    /\ ops_left = MaxControlOps
    /\ faults_left = MaxLifecycleFaults

Next ==
    \/ \E r \in Runners : PipelineStep(r)
    \/ \E r \in Runners : GateTimeout(r)
    \/ \E r \in Runners : ProviderFault(r)
    \/ Control
    \/ Tick

Spec == Init /\ [][Next]_vars

\* Embedding specification: one run over a repository of up to NumFiles
\* files with a failing provider; no client request arrives.
InitEmbed ==
    /\ Created
    /\ GraphIdle
    /\ UnitsIdle
    /\ NoContext
    /\ files \in 1..NumFiles
    /\ ops_left = 0
    /\ faults_left = MaxFaults

NextEmbed ==
    \/ \E r \in Runners : PipelineStep(r)
    \/ \E r \in Runners : ProviderFault(r)
    \/ Tick

SpecEmbed == InitEmbed /\ [][NextEmbed]_vars


\* Orchestration specification: one run over a one-file repository with a
\* working provider, any personas flags, and clients that add context.
RunnerStep(r) ==
    \/ RunInit(r) \/ RunStart(r) \/ GatePass(r)
    \/ Scan(r) \/ FileProgress(r) \/ Parse(r) \/ EmbedEnter(r)
    \/ CallOk(r) \/ Store(r) \/ RemainingQuery(r)
    \/ ToOrchestration(r) \/ SetAnalyzing(r)
    \/ DocStage(r) \/ PersistArtifacts(r) \/ RunComplete(r)

GraphStep(r) ==
    \/ ExecNode(r) /\ run[r].node # 4
    \/ RouteWriters(r)
    \/ \E b \in Branches : HumanRead(r, b) \/ HumanApply(r, b) \/ WriterRun(r, b)
    \/ SuperstepEnd(r)
    \/ OrchResume(r)

InitGraph ==
    /\ Created
    /\ GraphIdle
    /\ UnitsIdle
    /\ files = 1
    /\ ops_left = 0
    /\ faults_left = 0
    /\ target_personas \in [sde : BOOLEAN, pm : BOOLEAN]
    /\ instructions \in {<<>>, <<[text |-> "X", scope |-> "global"]>>}
    /\ pending_context = FALSE
    /\ ctx_left = MaxContextOps

NextGraph ==
    \/ \E r \in Runners : RunnerStep(r)
    \/ \E r \in Runners : GraphStep(r)
    \/ AddContext

SpecGraph == InitGraph /\ [][NextGraph]_vars

\* Failure specification: the embedding specification for a project that
\* may be a GitHub project whose clone fails.
InitFail == InitEmbed

NextFail ==
    \/ NextEmbed
    \/ \E r \in Runners : CloneFail(r)

SpecFail == InitFail /\ [][NextFail]_vars

\* -------------------------------------------------- pause gate, in detail
\* wait_if_paused l.215-226: the poll finds the analysis paused; the first
\* time, "Pause gate waiting for resume" is logged; then it sleeps.
GateWait(r) ==
    /\ run[r].pc \in Gates
    /\ wait_if_paused = "wait"
    /\ ~gate_log[r].logged_waiting
    /\ gate_log' = [gate_log EXCEPT ![r].logged_waiting = TRUE,
                                    ![r].waits = gate_log[r].waits + 1,
                                    ![r].blocked_at = run[r].pc]
    /\ UNCHANGED <<avars, dbvars, orchvars, run, envvars, pre_pause, NotGateLog>>

\* wait_if_paused l.187-200: the poll finds the analysis not paused (after
\* a wait, "Pause gate released; resuming work" is logged) or not pausable,
\* and returns: the runner goes on from the gate.
GateReturn(r) ==
    /\ run[r].pc \in Gates
    /\ wait_if_paused = "pass"
    /\ run' = [run EXCEPT ![r] = GatePassed(run[r])]
    /\ gate_log' = [gate_log EXCEPT
          ![r].logged_waiting = FALSE,
          ![r].released = IF ~paused /\ gate_log[r].logged_waiting
                          THEN gate_log[r].waits ELSE gate_log[r].released,
          ![r].released_at = IF ~paused /\ gate_log[r].logged_waiting
                             THEN run[r].pc ELSE gate_log[r].released_at]
    /\ UNCHANGED <<avars, dbvars, orchvars, envvars, pre_pause, NotGateLog>>

\* wait_if_paused l.201-214: the poll finds the pause timed out.
GateExpire(r) ==
    /\ run[r].pc \in Gates
    /\ wait_if_paused = "timeout"
    /\ cancel_analysis(MSG_PAUSE_TIMEOUT)
    /\ run' = [run EXCEPT ![r] = GateRaised(run[r])]
    /\ pre_pause' = NO_PAUSE
    /\ gate_log' = [gate_log EXCEPT ![r].logged_waiting = FALSE]
    /\ UNCHANGED <<dbvars, orchvars, envvars, NotGateLog>>

\* The steps of the runner between its gates.
WorkStep(r) ==
    \/ RunInit(r) \/ RunStart(r)
    \/ Scan(r) \/ FileProgress(r) \/ Parse(r) \/ EmbedEnter(r)
    \/ CallOk(r) \/ Store(r) \/ RemainingQuery(r)
    \/ ToOrchestration(r) \/ SetAnalyzing(r)
    \/ ExecNode(r) \/ DocStage(r) \/ PersistArtifacts(r) \/ RunComplete(r)

\* Gate specification: clients pause and resume the analysis of a one-file
\* repository; every poll of a gate is a step.  The polling loop of
\* wait_if_paused sleeps poll_seconds and polls again, so a poll that can
\* return does return: weak fairness of GateReturn.
InitGate ==
    /\ Created
    /\ GraphIdle
    /\ UnitsIdle
    /\ NoContext
    /\ files = 1
    /\ ops_left = MaxControlOps
    /\ faults_left = 0

NextGate ==
    \/ \E r \in Runners : WorkStep(r)
    \/ \E r \in Runners : GateWait(r) \/ GateReturn(r) \/ GateExpire(r)
    \/ Control
    \/ Tick

SpecGate == InitGate /\ [][NextGate]_vars /\ \A r \in Runners : WF_vars(GateReturn(r))

\* Everything but the unit under study is at rest.
Quiet ==
    /\ Created
    /\ GraphIdle
    /\ NoContext
    /\ files = 1
    /\ ops_left = 0
    /\ faults_left = 0

\* ---------------------------------------------------------- token usage
Recorders == 1..MaxRecorders

\* prompt_tokens + completion_tokens, or total_tokens, of a provider response.
TokenCounts == {3, 5}

\* record_llm_usage l.55-60 / record_embedding_usage l.79-83: nothing to do
\* for no tokens; else the row is read and current_tokens taken from it.
ReadUsage(t) ==
    /\ usage[t].pc = "idle"
    /\ \E new_tokens \in TokenCounts :
          usage' = [usage EXCEPT ![t] = [pc |-> "read", tokens |-> new_tokens,
                                         current_tokens |-> total_tokens_used]]
    /\ UNCHANGED <<total_tokens_used, NotUsage>>

\* update_progress(analysis_id, tokens_used = current_tokens + new_tokens),
\* which stores the value it is given (l.91-92, l.98-103).
WriteUsage(t) ==
    /\ usage[t].pc = "read"
    /\ total_tokens_used' = usage[t].current_tokens + usage[t].tokens
    /\ usage' = [usage EXCEPT ![t].pc = "recorded"]
    /\ UNCHANGED NotUsage

RECURSIVE RecordedTokens(_)
RecordedTokens(ts) ==
    IF ts = {} THEN 0
    ELSE LET t == CHOOSE x \in ts : TRUE
         IN (IF usage[t].pc = "recorded" THEN usage[t].tokens ELSE 0) + RecordedTokens(ts \ {t})

InitUsage ==
    /\ Quiet
    /\ UnitsIdle

NextUsage == \E t \in Recorders : ReadUsage(t) \/ WriteUsage(t)

SpecUsage == InitUsage /\ [][NextUsage]_vars

\* ---------------------------------------------------------- vector search
\* Embeddings of text-embedding-3-small are vectors of length 1; here in two
\* dimensions, with coordinates in fifths.
Embeddings == {<<5, 0>>, <<4, 3>>, <<3, 4>>, <<0, 5>>, <<-3, 4>>, <<-5, 0>>}

\* The inner product of two embeddings, in hundredths.
inner_product(a, b) == ((a[1] * b[1] + a[2] * b[2]) * 100) \div 25

\* CodeChunk.embedding.max_inner_product(query_embedding): the operator <#>
\* of pgvector, the negative inner product.
max_inner_product(a, b) == -inner_product(a, b)

\* An ordering by the inner product itself, most similar last.
plain_inner_product(a, b) == inner_product(a, b)

\* .order_by(CodeChunk.embedding.max_inner_product(query_embedding))
order_by(a, b) == max_inner_product(a, b)

\* ORDER BY distance (ascending), LIMIT limit: the row numbers, in any
\* order the database may pick among equal distances.
ordered_rows(corpus, query, limit) ==
    LET n == Len(corpus)
        orders == {o \in [1..n -> 1..n] :
                     /\ \A j, k \in 1..n : j # k => o[j] # o[k]
                     /\ \A j, k \in 1..n :
                           j < k => order_by(corpus[o[j]], query) <= order_by(corpus[o[k]], query)}
    IN {SubSeq(o, 1, Min(n, limit)) : o \in orders}

\* round(similarity, 4), in ten-thousandths.
round4(similarity) == similarity * 100

\* The loop over the rows, l.63-83: similarity = -distance; a row is kept
\* when similarity >= similarity_threshold.
RECURSIVE kept(_, _, _, _)
kept(rows, corpus, query, similarity_threshold) ==
    IF rows = <<>> THEN <<>>
    ELSE LET similarity == -max_inner_product(corpus[Head(rows)], query)
             rest == kept(Tail(rows), corpus, query, similarity_threshold)
         IN IF similarity >= similarity_threshold
            THEN <<[id |-> Head(rows), similarity_score |-> round4(similarity)]>> \o rest
            ELSE rest

search_similar_code(corpus, query, limit, similarity_threshold) ==
    {kept(rows, corpus, query, similarity_threshold) : rows \in ordered_rows(corpus, query, limit)}

Searches ==
    [corpus : UNION {[1..n -> Embeddings] : n \in 0..MaxCorpus},
     query : Embeddings,
     limit : 1..MaxLimit,
     similarity_threshold : {30, 80},
     state : {"asked"}]

\* POST /search: the query is embedded, the rows are selected and filtered.
SearchSimilarCode ==
    /\ search.state = "none"
    /\ \E q \in Searches :
          /\ search' = [q EXCEPT !.state = "answered"]
          /\ results' \in search_similar_code(q.corpus, q.query, q.limit, q.similarity_threshold)
    /\ UNCHANGED NotSearch

\* l.39-41 and l.88-90: no embedding for the query, or the search raised:
\* nothing is returned.
SearchFails ==
    /\ search.state = "none"
    /\ \E q \in Searches : search' = [q EXCEPT !.state = "failed"]
    /\ results' = <<>>
    /\ UNCHANGED NotSearch

InitSearch ==
    /\ Quiet
    /\ UnitsIdle

NextSearch == SearchSimilarCode \/ SearchFails

SpecSearch == InitSearch /\ [][NextSearch]_vars

\* ---------------------------------------------------------- chunk splitter
MAX_CHUNK_CHARS == 3000

\* Line lengths a unit is made of; 0 is an empty line.
LineLens == {0, 998, 1249, 1250, 1600, 1798, 2000, 2499, 2500, 5000}

RECURSIVE Sum(_)
Sum(list) == IF list = <<>> THEN 0 ELSE Head(list) + Sum(Tail(list))

\* len("\n".join(lines))
len(content) == IF content = <<>> THEN 0 ELSE Sum(content) + Len(content) - 1

\* str.splitlines of "\n".join(content): the same lines, without the empty
\* string that follows a final line break; no line of the empty string.
splitlines(content) ==
    IF len(content) = 0 THEN <<>>
    ELSE IF content[Len(content)] = 0 THEN SubSeq(content, 1, Len(content) - 1)
    ELSE content

\* CodeChunk(name=f"{chunk.name}__part{part_index}", ...)
part_of(chunk, part_index, current_lines, start_offset, last_idx) ==
    [name |-> chunk.name \o "__part" \o ToString(part_index),
     content |-> current_lines,
     start_line |-> chunk.start_line + start_offset,
     end_line |-> chunk.start_line + last_idx,
     docstring |-> IF part_index = 1 THEN chunk.docstring ELSE FALSE]

\* A part is closed before a line that would take it over the budget...
closes_part(current_lines, current_len, line_len) ==
    current_lines # <<>> /\ current_len + line_len > MAX_CHUNK_CHARS

\* The loop `for idx, line in enumerate(lines)` from idx on, and the part
\* made of what is left over after it.
RECURSIVE split_from(_, _, _, _)
split_from(chunk, lines, idx, st) ==
    IF idx >= Len(lines)
    THEN IF st.current_lines # <<>>
         THEN Append(st.parts, part_of(chunk, st.part_index, st.current_lines,
                                       st.start_offset, Len(lines) - 1))
         ELSE st.parts
    ELSE LET line == lines[idx + 1]
             line_len == line + 1
         IN IF closes_part(st.current_lines, st.current_len, line_len)
            THEN split_from(chunk, lines, idx + 1,
                   [parts |-> Append(st.parts, part_of(chunk, st.part_index, st.current_lines,
                                                       st.start_offset, idx - 1)),
                    part_index |-> st.part_index + 1,
                    current_lines |-> <<line>>,
                    current_len |-> line_len,
                    start_offset |-> idx])
            ELSE split_from(chunk, lines, idx + 1,
                   [st EXCEPT !.current_lines = Append(st.current_lines, line),
                              !.current_len = st.current_len + line_len])

\* _split_large_chunks for one chunk of the list.
split_large_chunk(chunk) ==
    IF len(chunk.content) <= MAX_CHUNK_CHARS THEN <<chunk>>
    ELSE IF splitlines(chunk.content) = <<>> THEN <<chunk>>
    ELSE split_from(chunk, splitlines(chunk.content), 0,
                    [parts |-> <<>>, part_index |-> 1, current_lines |-> <<>>,
                     current_len |-> 0, start_offset |-> 0])

\* The units the parsers hand over: content = "\n".join(lines[start_line - 1:end_line]),
\* where lines = content.split("\n") of the file.
RawChunks ==
    {[name |-> "f", content |-> content, start_line |-> start_line,
      end_line |-> start_line + Len(content) - 1, docstring |-> TRUE] :
        content \in UNION {[1..n -> LineLens] : n \in 1..MaxLines}, start_line \in {1, 10}}

\* preprocess_project l.260-261: a file is parsed and its chunks are split.
SplitLargeChunks ==
    /\ raw_chunk = NO_CHUNK
    /\ \E chunk \in RawChunks :
          /\ raw_chunk' = chunk
          /\ split_chunks' = split_large_chunk(chunk)
    /\ UNCHANGED <<NotSplitter>>

InitSplitter ==
    /\ Quiet
    /\ UnitsIdle

NextSplitter == SplitLargeChunks

SpecSplitter == InitSplitter /\ [][NextSplitter]_vars

\* ---------------------------------------------------------- event stream
\* The clock advances.
ClockTick ==
    /\ clock < MaxClock
    /\ clock' = clock + 1
    /\ UNCHANGED <<analysis_logs, stream, NotStream>>

\* log_event l.126-135: the AnalysisLog object is built with
\* timestamp = datetime.utcnow() and added to a dedicated session.
CreateLog(w) ==
    /\ analysis_logs[w].pc = "idle"
    /\ analysis_logs' = [analysis_logs EXCEPT ![w] = [pc |-> "created", timestamp |-> clock]]
    /\ UNCHANGED <<clock, stream, NotStream>>

\* log_event l.136-137: the awaited commit makes the row visible.
CommitLog(w) ==
    /\ analysis_logs[w].pc = "created"
    /\ analysis_logs' = [analysis_logs EXCEPT ![w].pc = "committed"]
    /\ UNCHANGED <<clock, stream, NotStream>>

Committed == {w \in LogWriters : analysis_logs[w].pc = "committed"}

\* The rows the poll selects: all of them (the newest 20) on the first poll,
\* afterwards those with timestamp > last_log_ts.
selected(last_log_ts) ==
    IF last_log_ts = NONE THEN Committed
    ELSE {w \in Committed : analysis_logs[w].timestamp > last_log_ts}

\* ORDER BY timestamp ASC: any order of the rows in which timestamps do not
\* decrease (rows with equal timestamps come in the order the database picks).
order_by_timestamp(rows) ==
    {list \in [1..Cardinality(rows) -> rows] :
        /\ \A j, k \in 1..Cardinality(rows) : j # k => list[j] # list[k]
        /\ \A j, k \in 1..Cardinality(rows) :
              j < k => analysis_logs[list[j]].timestamp <= analysis_logs[list[k]].timestamp}

\* event_stream l.666-696, one turn of the loop: the query, one `event: log`
\* per row, last_log_ts set to the timestamp of the last row yielded.
Poll ==
    /\ \E logs \in order_by_timestamp(selected(stream.last_log_ts)) :
          stream' = [last_log_ts |-> IF logs = <<>> THEN stream.last_log_ts
                                     ELSE analysis_logs[logs[Len(logs)]].timestamp,
                     yielded |-> stream.yielded \o logs]
    /\ UNCHANGED <<clock, analysis_logs, NotStream>>

\* Event-stream specification: one client is connected from the start,
\* MaxLogWriters calls of log_event run concurrently with its polling.
InitStream ==
    /\ Quiet
    /\ BroadcastIdle
    /\ StreamIdle
    /\ SplitterIdle
    /\ SearchIdle
    /\ UsageIdle
    /\ GateLogIdle

NextStream ==
    \/ ClockTick
    \/ \E w \in LogWriters : CreateLog(w) \/ CommitLog(w)
    \/ Poll

SpecStream == InitStream /\ [][NextStream]_vars

\* Broadcast specification: up to MaxSubscribers clients are subscribed in
\* some order, connections break, and the runner and the request handlers
\* call update_progress and log_event.
InitBroadcast ==
    /\ Quiet
    /\ \E n \in 1..MaxSubscribers :
          /\ active_connections \in {list \in [1..n -> Sockets] :
                                        \A j, k \in 1..n : j # k => list[j] # list[k]}
          /\ sockets = [ws \in Sockets |->
                          IF ws \in Elems(active_connections) THEN "open" ELSE "closed"]
    /\ bc = [t \in Callers |-> IdleCall]
    /\ StreamIdle
    /\ SplitterIdle
    /\ SearchIdle
    /\ UsageIdle
    /\ GateLogIdle

NextBroadcast ==
    \/ \E t \in Callers : CommitMutation(t) \/ SendNext(t) \/ FinishBroadcast(t)
    \/ \E ws \in Sockets : Break(ws) \/ HandlerDisconnect(ws)

SpecBroadcast == InitBroadcast /\ [][NextBroadcast]_vars

\* ------------------------------------------------------------------ claims
TerminalStatus == {"completed", "failed", "cancelled"}

AllEnded == \A r \in Runners : run[r].pc \in Ended

\* The status graph of the job state machine: pending -> preprocessing ->
\* analyzing, (preprocessing | analyzing) <-> paused, non-terminal -> terminal,
\* and the restart of a pause-timeout-cancelled analysis.
StatusEdge(s, t, msg) ==
    \/ s = t
    \/ s = "pending" /\ t = "preprocessing"
    \/ s = "preprocessing" /\ t = "analyzing"
    \/ s \in {"preprocessing", "analyzing"} /\ t = "paused"
    \/ s = "paused" /\ t \in {"preprocessing", "analyzing"}
    \/ s \notin TerminalStatus /\ t \in TerminalStatus
    \/ s = "cancelled" /\ is_pause_timeout(msg) /\ t \in {"preprocessing", "analyzing"}

\* C1: every change of Analysis.status follows the status graph; completed,
\* failed and cancelled are left only by the restart after a pause timeout.
C1_StatusGraph == [][StatusEdge(status, status', error_message)]_vars

\* C2: a resume of an analysis paused from status S in {preprocessing,
\* analyzing}, before the pause timeout, restores status S (analyzing when the
\* pause was taken in agent_orchestration) and clears paused; the stage is
\* the one the pause was accepted in.
C2_ResumeRestores ==
    [][ ( /\ HttpResume \/ WsResume
          /\ status = "paused" /\ paused
          /\ pre_pause[1] \in {"preprocessing", "analyzing"}
          /\ pre_pause[2] = current_stage
          /\ wait_if_paused # "timeout" )
        => ( /\ status' = pre_pause[1]
             /\ ~paused'
             /\ status' = IF current_stage = "agent_orchestration"
                          THEN "analyzing" ELSE "preprocessing" ) ]_vars

\* C3: an analysis left paused beyond the limit ends up cancelled with the
\* timeout message and paused cleared.  Only a runner at a pause gate cancels
\* (and clears paused), so the analysis is never still paused beyond the limit
\* when no runner is left to cancel it (pause accepted on a running analysis).
C3_PausedBeyondLimitIsCancelled ==
    ~( /\ AllEnded
       /\ paused /\ paused_for # NONE /\ paused_for > PAUSE_TIMEOUT_MINUTES
       /\ pre_pause[1] \in {"preprocessing", "analyzing"} )

\* C4: a runner whose pause gate raised the pause-timeout failure has ended.
C4_TimeoutEndsRunner == \A r \in Runners : run[r].timed_out => run[r].pc = "done"

\* C5: a pause request in a state where pause is not allowed changes neither
\* status nor paused nor paused_at, through both entry points.
C5_PauseRejected ==
    [][ ((HttpPause \/ WsPause) /\ ~is_pause_allowed(status, current_stage))
        => UNCHANGED <<status, paused, paused_for>> ]_vars

\* C6: while the analysis stays paused (no resume, no pause timeout), a runner
\* waiting in a pause gate stays in that gate.
C6_GateHoldsRunner ==
    [][ \A r \in Runners :
          (run[r].pc \in Gates /\ paused /\ paused') => run'[r].pc = run[r].pc ]_vars

\* C7: resuming an analysis that the pause timeout cancelled in
\* agent_orchestration (its runner has ended) resets it to analyzing /
\* agent_orchestration with its counters kept.
C7_RestartFromOrchestration ==
    [][ ( /\ HttpResume
          /\ AllEnded
          /\ status = "cancelled" /\ is_pause_timeout(error_message)
          /\ current_stage = "agent_orchestration" )
        => ( /\ status' = "analyzing"
             /\ current_stage' = "agent_orchestration"
             /\ UNCHANGED <<processed_files, total_files>> ) ]_vars

\* C8: an orchestrator run that starts after the earlier runner has stopped
\* does not execute a graph node the thread's checkpoint already holds.
C8_ResumeFromCheckpoint ==
    [][ \A r \in Runners :
          (ExecNode(r) /\ \A q \in Runners \ {r} : run[q].pc \in Ended)
              => run[r].node \notin checkpoint ]_vars

\* C9: after the third embedding failure of a preprocessing run the run is
\* aborted: the runner is in its failure handler or has marked the analysis failed.
C9_ThirdFailureAborts ==
    \A r \in Runners :
        run[r].fails > 2 => (run[r].pc = "fail" \/ (run[r].pc = "done" /\ status = "failed"))

C11_RetriedOnce ==
    [][ \A r \in Runners :
          (ProviderFault(r) /\ run'[r].fails # run[r].fails)
              => (run[r].pc = "call2" /\ run'[r].fails = run[r].fails + 1) ]_vars

\* C12: once the analysis is cancelled, a runner task stops at its next pause
\* gate: no gate lets a runner through while the status is cancelled.
C12_CancelledStopsAtGate ==
    [][ \A r \in Runners : ~(GatePass(r) /\ status = "cancelled") ]_vars

\* Graph nodes whose agent calls an external service: web_search (MCP web
\* search, chat completion) and the writers (chat completions of report_llm).
ExternalCallNodes == {3, 4}

\* A runner starts an external call: an embedding request (first call or
\* retry) or a graph node that calls out.
StartsExternalCall(r) ==
    \/ GatePass(r) /\ run[r].pc \in {"gate540", "gate561"}
    \/ ExecNode(r) /\ run[r].node \in ExternalCallNodes

\* C13: while the analysis is paused in a pausable stage (pause accepted, not
\* resumed, no pause timeout so far), no runner starts an external call.
C13_PausedStartsNoCall ==
    [][ \A r \in Runners :
          ~( /\ StartsExternalCall(r)
             /\ status = "paused" /\ paused /\ current_stage \in PAUSE_ALLOWED_STAGES
             /\ error_message = MSG_NONE /\ ~run[r].timed_out ) ]_vars

ClientRequest == Control \/ AddContext

C18_WritersByPersonas ==
    join_ready =>
        /\ outputs = (IF target_personas.sde THEN {"sde_doc"} ELSE {}) \cup
                     (IF target_personas.pm \/ ~target_personas.sde THEN {"pm_doc"} ELSE {})
        /\ outputs # {}

JoinRuns == node_runs[Len(GraphNodes)]
PastJoin(r) == run[r].pc \in {"doc_stage", "artifacts", "complete"} \/ status = "completed"

\* C19: when both writer branches run, join executes exactly once, and only
\* after both the technical and the business writer have completed, also
\* when a branch was interrupted and resumed.
C19_JoinOnceAfterBoth ==
    Scheduled = Branches =>
        /\ JoinRuns <= 1
        /\ JoinRuns = 1 => (outputs = Branches /\ \A b \in Branches : branch[b].pc = "done")
        /\ \A r \in Runners : PastJoin(r) => JoinRuns = 1

C19_Witness ==
    /\ Scheduled = Branches
    /\ JoinRuns = 1
    /\ hist.resumes > 0
    /\ outputs = Branches

\* C20: add_user_context appends the instruction to the instruction list and
\* sets pending_context exactly when current_stage is agent_orchestration;
\* on a completed, failed or cancelled analysis it leaves both unchanged.
C20_ContextAppended ==
    [][ AddContext =>
          IF status \in {"completed", "failed", "cancelled"}
          THEN UNCHANGED ctxvars
          ELSE /\ \E context \in Instruction : instructions' = Append(instructions, context)
               /\ pending_context' = (pending_context \/ current_stage = "agent_orchestration") ]_vars

\* C21: an exception raised in the runner leaves the analysis failed with
\* error_message a truncated, length-bounded form of the exception text.
C21_FailedWithBoundedMessage ==
    [][ \A r \in Runners :
          (CloneFail(r) \/ RunFail(r))
              => (status' = "failed" /\ Len(error_message') <= LOG_MESSAGE_CHARS) ]_vars

\* C22: the artifacts of an analysis are written at most once, over any
\* sequence of pause, timeout, restart and resume.
C22_ArtifactsWrittenOnce == artifacts_written <= 1

\* C23: over any sequence of cancels and restarts the preprocessing outputs
\* of a project are written once: never more than one RepositoryMetadata
\* row, and no file's chunks stored twice.
C23_PreprocessingWrittenOnce ==
    /\ repo_meta_rows <= 1
    /\ chunks_unembedded + chunks_embedded <= files * ChunksPerFile

\* A restarted runner has reached the scan of a project that was scanned before.
C23_Witness ==
    /\ repo_meta_rows = 1
    /\ \E r \in Runners : r > 1 /\ run[r].pc = "done" /\ ~run[r].skipped
    /\ error_message = MSG_INTEGRITY

\* C24: a broadcast failure never fails the mutation: when update_progress or
\* log_event returns, its change is committed and nothing was raised to the
\* caller, every subscriber whose send failed has been dropped, and every
\* other subscriber has received the message.
C24_BroadcastBestEffort ==
    [][ \A t \in Callers : FinishBroadcast(t) =>
          /\ bc'[t].pc = "returned" /\ bc'[t].op # "none"
          /\ \A ws \in Elems(bc[t].disconnected) : ws \notin Elems(active_connections')
          /\ \A ws \in Elems(active_connections') : ws \in bc[t].received ]_vars

\* C25: every log event committed while the client is connected has been
\* delivered to it once the stream has polled, and the log events are
\* delivered in timestamp order, whatever the interleaving of the log
\* writers and the polling.
C25_StreamAtLeastOnceOrdered ==
    [][ Poll =>
          /\ \A w \in Committed : w \in Elems(stream'.yielded)
          /\ \A j, k \in 1..Len(stream'.yielded) :
                j < k => analysis_logs[stream'.yielded[j]].timestamp
                           <= analysis_logs[stream'.yielded[k]].timestamp ]_vars

\* The line ranges of the parts follow one another from the unit's
\* start_line to its end_line, without gap or overlap.
Partitions(parts, chunk) ==
    /\ parts # <<>>
    /\ parts[1].start_line = chunk.start_line
    /\ \A k \in 1..Len(parts) - 1 : parts[k + 1].start_line = parts[k].end_line + 1
    /\ \A k \in 1..Len(parts) : parts[k].start_line <= parts[k].end_line
    /\ parts[Len(parts)].end_line = chunk.end_line

Oversized == raw_chunk # NO_CHUNK /\ len(raw_chunk.content) > MAX_CHUNK_CHARS

\* C26: for every unit whose content exceeds the character budget, the line
\* ranges of the parts are contiguous, do not overlap, and cover exactly the
\* unit's [start_line, end_line].
C26_PartsCoverLineRange ==
    Oversized => Partitions(split_chunks, raw_chunk)

\* C27: a function f with 5000 characters of content yields exactly two
\* chunks, f__part1 and f__part2, whose line ranges partition the
\* function's line range, however the characters are divided into lines.
C27_FiveThousandCharsTwoParts ==
    (raw_chunk # NO_CHUNK /\ len(raw_chunk.content) = 5000) =>
        /\ Len(split_chunks) = 2
        /\ split_chunks[1].name = "f__part1"
        /\ split_chunks[2].name = "f__part2"
        /\ Partitions(split_chunks, raw_chunk)

\* C28: every part made from an oversized unit has at most MAX_CHUNK_CHARS
\* characters of content, and a unit within the budget is returned unchanged.
C28_PartsWithinBudget ==
    raw_chunk # NO_CHUNK =>
        IF len(raw_chunk.content) > MAX_CHUNK_CHARS
        THEN \A k \in 1..Len(split_chunks) : len(split_chunks[k].content) <= MAX_CHUNK_CHARS
        ELSE split_chunks = <<raw_chunk>>

\* The runner has waited at a gate and the analysis is no longer paused.
GateResumed(r) == gate_log[r].logged_waiting /\ ~paused

\* The gate the runner waited at has returned and the runner has gone on
\* from it: its latest wait has ended in a release.
GateReleased(r) ==
    /\ ~gate_log[r].logged_waiting
    /\ gate_log[r].released = gate_log[r].waits
    /\ gate_log[r].released_at = gate_log[r].blocked_at

C30_SearchRankedAboveThreshold ==
    search.state = "answered" =>
        /\ Len(results) <= search.limit
        /\ \A j, k \in 1..Len(results) :
              j < k => /\ results[j].similarity_score >= results[k].similarity_score
                       /\ inner_product(search.corpus[results[j].id], search.query)
                            >= inner_product(search.corpus[results[k].id], search.query)
        /\ \A k \in 1..Len(results) :
              inner_product(search.corpus[results[k].id], search.query)
                 >= search.similarity_threshold
        /\ \A i \in 1..Len(search.corpus) :
              search.corpus[i] = search.query =>
                 \A k \in 1..Len(results) :
                    results[k].similarity_score
                       <= round4(inner_product(search.corpus[i], search.query))

C30_Witness ==
    /\ search.state = "answered"
    /\ Len(search.corpus) = 3
    /\ Len(results) = 2
    /\ search.limit = 2
    /\ search.corpus[results[1].id] = search.query
    /\ results[2].similarity_score < results[1].similarity_score
    /\ \E i \in 1..Len(search.corpus) :
          inner_product(search.corpus[i], search.query) < search.similarity_threshold

\* C31: in every reachable state the paused flag is set exactly when the
\* status is paused.
C31_PausedFlagIsStatus == paused <=> (status = "paused")

\* The runner tasks that are executing.
ActiveRunners == {r \in Runners : run[r].pc \notin Ended}

\* C32: at most one runner task is active for the analysis at any time.
C32_OneActiveRunner == Cardinality(ActiveRunners) <= 1

\* The stored instruction list still holds every instruction it held.
KeepsInstructions ==
    /\ Len(instructions') >= Len(instructions)
    /\ SubSeq(instructions', 1, Len(instructions)) = instructions

\* C33: no instruction is lost: an instruction accepted by add_user_context
\* on a non-terminal analysis is in the stored list and stays in it, whatever
\* the interleaving with the writer interrupt's write-back.
C33_NoInstructionLost ==
    [][ /\ KeepsInstructions
        /\ (AddContext /\ status \notin {"completed", "failed", "cancelled"})
              => Len(instructions') = Len(instructions) + 1 ]_vars

\* C34: total_tokens_used is the sum of the token counts of all the usage
\* recorded for the analysis, also when usage is recorded concurrently.
C34_TokensAreSumOfUsage == total_tokens_used = RecordedTokens(Recorders)

\* C35: every orchestration run that has reached join has produced at least
\* one writer report, whatever the personas asked for; a completed analysis
\* has a report.
C35_JoinHasReport ==
    /\ \A r \in Runners : PastJoin(r) => outputs # {}
    /\ artifacts_written > 0 => outputs # {}

\* ------------------------------------------------------------------ C36
\* Positions at which a runner parses a file (parser.parse_file, l.260) or
\* has an embeddings.create request out (l.548-553, retry l.563-569).
ParseOrCall == {"parse", "call1", "call2"}

\* C36: during preprocessing a runner comes to a file parse or to an embedding
\* provider call, the retry included, only by a pause gate returning: every
\* step that takes a runner to such a position is the pass of a gate check of
\* that runner, so no parse and no call happens without a gate check since the
\* previous one.
C36_GateBeforeParseAndCall ==
    [][ \A r \in Runners :
          (run'[r].pc \in ParseOrCall /\ run'[r].pc # run[r].pc)
             => (run[r].pc \in {"gate258", "gate540", "gate561"} /\ GatePass(r)) ]_vars

\* A retry is out, behind its gate, after at least one file was parsed.
C36_Witness ==
    \E r \in Runners : run[r].pc = "call2" /\ run[r].i >= 1 /\ chunks_unembedded > 0

\* ------------------------------------------------------------------ C37
\* The progress bar shows 100%: processed_files / total_files = 1.
ProgressFull == total_files > 0 /\ processed_files >= total_files

\* C37: the reported progress is 100% only when the entire job is done: the
\* stored processed_files reaches total_files only once join has run, never
\* during preprocessing or an earlier graph node.
C37_FullOnlyAtJoin == ProgressFull => JoinRuns > 0

\* ------------------------------------------------------------------ C38
\* The stored value is an agent-phase percentage before and after the step.
AgentProgressStep ==
    /\ current_stage = "agent_orchestration" /\ current_stage' = "agent_orchestration"
    /\ total_files = 100 /\ total_files' = 100

\* C38: during agent orchestration the stored progress never decreases: no
\* step of a graph node (structure, web research, the two writers in either
\* order, join) stores a processed_files below the value stored before.
C38_ProgressNeverDecreases ==
    [][ (AgentProgressStep /\ \E r \in Runners : GraphStep(r))
           => processed_files' >= processed_files ]_vars

====
